---- MODULE Spec2Model ----
(***************************************************************************)
(* A model of NERDA's train_model (src/src/NERDA/train.py): the set-up of  *)
(* seeding, data loaders, optimizer groups and schedule, then the epoch    *)
(* loop with best-snapshot tracking, restoration and return.               *)
(*                                                                         *)
(* Floats are records [kind, v]: kind "fin" carries the integer v, the     *)
(* kinds "nan", "inf" and "-inf" are the IEEE specials.  Strings are       *)
(* tuples of one-character strings, so that Python's substring test is     *)
(* computed, not assumed.  The network's parameter tensors live in `heap`; *)
(* a parameter state is identified by the number of training passes that   *)
(* produced it (train_ updates the tensors in place once per pass).        *)
(* `trace` records the calls made, in order; train_losses, valid_losses    *)
(* and trained record what each pass handed back and the parameter state   *)
(* each training pass ended with.                                          *)
(***************************************************************************)
EXTENDS Integers, Sequences, FiniteSets

\* ---------------------------------------------------------------- bounds
MaxEpochs == 3
MaxExamples == 10
MaxBatch == 5
MaxLoss == 2

\* ---------------------------------------------------------------- floats
Fin(x) == [kind |-> "fin", v |-> x]
PosInf == [kind |-> "inf", v |-> 0]
NegInf == [kind |-> "-inf", v |-> 0]
NaN == [kind |-> "nan", v |-> 0]

\* The losses a step function can hand back.
FiniteLosses == {Fin(x) : x \in 1..MaxLoss}
Losses == FiniteLosses \cup {PosInf, NegInf, NaN}

\* A comparison written `not (a >= b)`: true of every comparison with NaN.
FloatLessNotGreaterEqual(a, b) ==
    IF a.kind = "nan" \/ b.kind = "nan" THEN TRUE
    ELSE IF a.kind = "-inf" THEN b.kind # "-inf"
    ELSE IF a.kind = "inf" THEN FALSE
    ELSE IF b.kind = "fin" THEN a.v < b.v
    ELSE b.kind = "inf"

\* Python's `a < b` on floats: false whenever either side is NaN.
FloatLess(a, b) ==
    IF a.kind = "nan" \/ b.kind = "nan" THEN FALSE
    ELSE IF a.kind = "-inf" THEN b.kind # "-inf"
    ELSE IF a.kind = "inf" THEN FALSE
    ELSE IF b.kind = "fin" THEN a.v < b.v
    ELSE b.kind = "inf"

\* --------------------------------------------------------------- strings
\* Python's `sub in s` on strings.
Contains(sub, s) ==
    \E i \in 1..(Len(s) - Len(sub) + 1) : SubSeq(s, i, i + Len(sub) - 1) = sub

bias == <<"b", "i", "a", "s">>
weight == <<"w", "e", "i", "g", "h", "t">>
LayerNorm == <<"L", "a", "y", "e", "r", "N", "o", "r", "m">>
layer == <<"l", "a", "y", "e", "r">>
dot == <<".">>

\* no_decay of train_model.
no_decay == {bias, LayerNorm \o dot \o bias, LayerNorm \o dot \o weight}

\* A test that matches a whole name against the denylist, not a substring.
AnyNoDecayExact(n) == n \in no_decay

\* any(nd in n for nd in no_decay)
AnyNoDecay(n) == \E nd \in no_decay : Contains(nd, n)

\* The parameter names a network may carry.
layer_bias == layer \o dot \o bias
layer_weight == layer \o dot \o weight
LayerNorm_weight == <<"0", ".">> \o LayerNorm \o dot \o weight
Bias_upper == <<"B", "i", "a", "s">>
ParamNames == {layer_bias, layer_weight, LayerNorm_weight, Bias_upper}

\* ---------------------------------------------------------------- inputs
Seeds == {"None", "0", "42"}

\* `if fixed_seed:` in place of `if fixed_seed is not None:`.
ShouldSeedTruthy(seed) == seed # "None" /\ seed # "0"

\* if fixed_seed is not None
ShouldSeed(seed) == seed # "None"

\* int(len(dr_train) / train_batch_size) * epochs + one step per partial batch
NumTrainStepsCeil(n, b, e) == ((n + b - 1) \div b) * e

\* int(len(dr_train) / train_batch_size * epochs): a true division, the
\* product, then truncation toward zero.  On the inputs modelled here
\* (n <= 14, b <= 10) the double-precision result equals the exact one.
NumTrainSteps(n, b, e) == (n * e) \div b

\* for epoch in range(epochs), cut one epoch short
LoopContinuesShort(i, e) == i < e - 1

\* for epoch in range(epochs)
LoopContinues(i, e) == i < e

\* losses.insert(0, train_loss)
AppendLossFront(l, x) == <<x>> \o l

\* losses.append(train_loss)
AppendLoss(l, x) == Append(l, x)

\* ------------------------------------------------------------------ heap
\* The one set of parameter tensors of the run: the network's.
TensorIds == {"network"}
Unbound == "unbound"

\* network.state_dict(): a dictionary of references to the network's own
\* parameter tensors (no copy is made).
StateDict(net) == net

\* load_state_dict that resets the parameters instead of copying them.
LoadStateDictReset(h, net, sd) == [h EXCEPT ![net] = 0]

\* network.load_state_dict(sd): copies sd's tensors into the network's.
LoadStateDict(h, net, sd) == [h EXCEPT ![net] = h[sd]]

VARIABLES
    epochs, train_batch_size, custom_weight_decay, fixed_seed,
    named_parameters, len_dr_train,
    pc, optimizer_parameters, num_train_steps,
    losses, best_loss, best_parameters, epoch, train_loss, valid_loss,
    heap, trace, train_losses, valid_losses, trained

vars == <<epochs, train_batch_size, custom_weight_decay, fixed_seed,
          named_parameters, len_dr_train, pc, optimizer_parameters,
          num_train_steps, losses, best_loss, best_parameters, epoch,
          train_loss, valid_loss, heap, trace, train_losses, valid_losses,
          trained>>

inputs == <<epochs, train_batch_size, custom_weight_decay, fixed_seed,
            named_parameters, len_dr_train>>

loop_locals == <<losses, best_loss, best_parameters, epoch, train_loss,
                 valid_loss, train_losses, valid_losses, trained>>

\* The locals of train_model before its first statement.
InitLocals ==
    /\ pc = "seed"
    /\ optimizer_parameters = <<>>
    /\ num_train_steps = 0
    /\ losses = <<>>
    /\ best_loss = PosInf
    /\ best_parameters = Unbound
    /\ epoch = 0
    /\ train_loss = NaN
    /\ valid_loss = NaN
    /\ heap = [t \in TensorIds |-> 0]
    /\ trace = <<>>
    /\ train_losses = <<>>
    /\ valid_losses = <<>>
    /\ trained = <<>>

\* A call of train_model with the dataset and the network of the largest
\* modelled size.
Init ==
    /\ epochs \in 0..MaxEpochs
    /\ train_batch_size = MaxBatch
    /\ custom_weight_decay \in BOOLEAN
    /\ fixed_seed \in Seeds
    /\ named_parameters = ParamNames
    /\ len_dr_train = MaxExamples
    /\ InitLocals

\* A call of train_model with any dataset size, batch size and network.
InitBuild ==
    /\ epochs \in 0..MaxEpochs
    /\ train_batch_size \in 1..MaxBatch
    /\ custom_weight_decay \in BOOLEAN
    /\ fixed_seed \in Seeds
    /\ named_parameters \in SUBSET ParamNames
    /\ len_dr_train \in 0..MaxExamples
    /\ InitLocals

\* ----------------------------------------------------------------- set-up
Seeding ==
    /\ pc = "seed"
    /\ ShouldSeed(fixed_seed)
    /\ trace' = Append(trace, "enforce_reproducibility")
    /\ pc' = "dl_train"
    /\ UNCHANGED <<inputs, optimizer_parameters, num_train_steps, loop_locals, heap>>

SkipSeeding ==
    /\ pc = "seed"
    /\ ~ShouldSeed(fixed_seed)
    /\ pc' = "dl_train"
    /\ UNCHANGED <<inputs, optimizer_parameters, num_train_steps, loop_locals, heap, trace>>

CreateTrainLoader ==
    /\ pc = "dl_train"
    /\ trace' = Append(trace, "dl_train")
    /\ pc' = "dl_validate"
    /\ UNCHANGED <<inputs, optimizer_parameters, num_train_steps, loop_locals, heap>>

CreateValidateLoader ==
    /\ pc = "dl_validate"
    /\ trace' = Append(trace, "dl_validate")
    /\ pc' = "optimizer_parameters"
    /\ UNCHANGED <<inputs, optimizer_parameters, num_train_steps, loop_locals, heap>>

GroupParameters ==
    /\ pc = "optimizer_parameters"
    /\ optimizer_parameters' =
        IF custom_weight_decay
        THEN << [params |-> {n \in named_parameters : ~AnyNoDecay(n)},
                 weight_decay |-> "0.001"],
                [params |-> {n \in named_parameters : AnyNoDecay(n)},
                 weight_decay |-> "0.0"] >>
        ELSE << [params |-> named_parameters, weight_decay |-> "default"] >>
    /\ pc' = "scheduler"
    /\ UNCHANGED <<inputs, num_train_steps, loop_locals, heap, trace>>

BuildSchedule ==
    /\ pc = "scheduler"
    /\ num_train_steps' = NumTrainSteps(len_dr_train, train_batch_size, epochs)
    /\ trace' = trace \o <<"optimizer", "scheduler">>
    /\ pc' = "loop_init"
    /\ UNCHANGED <<inputs, optimizer_parameters, loop_locals, heap>>

NextBuild ==
    \/ Seeding
    \/ SkipSeeding
    \/ CreateTrainLoader
    \/ CreateValidateLoader
    \/ GroupParameters
    \/ BuildSchedule

SpecBuild == InitBuild /\ [][NextBuild]_vars

\* ------------------------------------------------------------- epoch loop
InitLoop ==
    /\ pc = "loop_init"
    /\ losses' = <<>>
    /\ best_loss' = PosInf
    /\ pc' = "loop"
    /\ UNCHANGED <<inputs, optimizer_parameters, num_train_steps, best_parameters,
                   epoch, train_loss, valid_loss, train_losses, valid_losses,
                   trained, heap, trace>>

\* `epoch` is the number of items range(epochs) has handed out and the body
\* has finished with.
LoopHead ==
    /\ pc = "loop"
    /\ pc' = IF LoopContinues(epoch, epochs) THEN "train" ELSE "finalize"
    /\ UNCHANGED <<inputs, optimizer_parameters, num_train_steps, loop_locals, heap, trace>>

\* train_ makes one pass over dl_train, updating the network's tensors in
\* place, and hands back the pass's loss.
Train ==
    /\ pc = "train"
    /\ \E l \in FiniteLosses :
        /\ train_loss' = l
        /\ losses' = AppendLoss(losses, l)
        /\ train_losses' = Append(train_losses, l)
    /\ heap' = [heap EXCEPT !["network"] = @ + 1]
    /\ trained' = Append(trained, heap'["network"])
    /\ trace' = Append(trace, "train_")
    /\ pc' = "validate"
    /\ UNCHANGED <<inputs, optimizer_parameters, num_train_steps, best_loss,
                   best_parameters, epoch, valid_loss, valid_losses>>

\* validate_ makes one pass over dl_validate and hands back its loss.
Validate ==
    /\ pc = "validate"
    /\ \E l \in Losses :
        /\ valid_loss' = l
        /\ valid_losses' = Append(valid_losses, l)
    /\ trace' = Append(trace, "validate_")
    /\ pc' = "compare"
    /\ UNCHANGED <<inputs, optimizer_parameters, num_train_steps, losses, best_loss,
                   best_parameters, epoch, train_loss, train_losses, trained, heap>>

Compare ==
    /\ pc = "compare"
    /\ IF FloatLess(valid_loss, best_loss)
       THEN /\ best_parameters' = StateDict("network")
            /\ best_loss' = valid_loss
       ELSE UNCHANGED <<best_parameters, best_loss>>
    /\ epoch' = epoch + 1
    /\ trace' = Append(trace, "compare")
    /\ pc' = "loop"
    /\ UNCHANGED <<inputs, optimizer_parameters, num_train_steps, losses,
                   train_loss, valid_loss, train_losses, valid_losses, trained, heap>>

\* network.load_state_dict(best_parameters): reading best_parameters before
\* any assignment to it raises UnboundLocalError.
Finalize ==
    /\ pc = "finalize"
    /\ IF best_parameters = Unbound
       THEN /\ pc' = "raised"
            /\ UNCHANGED <<heap, trace>>
       ELSE /\ heap' = LoadStateDict(heap, "network", best_parameters)
            /\ trace' = Append(trace, "load_state_dict")
            /\ pc' = "return"
    /\ UNCHANGED <<inputs, optimizer_parameters, num_train_steps, loop_locals>>

Return ==
    /\ pc = "return"
    /\ trace' = Append(trace, "return")
    /\ pc' = "done"
    /\ UNCHANGED <<inputs, optimizer_parameters, num_train_steps, loop_locals, heap>>

Next ==
    \/ NextBuild
    \/ InitLoop
    \/ LoopHead
    \/ Train
    \/ Validate
    \/ Compare
    \/ Finalize
    \/ Return

Spec == Init /\ [][Next]_vars

\* ----------------------------------------------------------------- claims
IsPrefix(s, t) == Len(s) <= Len(t) /\ SubSeq(t, 1, Len(s)) = s

Count(s, x) == Cardinality({i \in 1..Len(s) : s[i] = x})

\* Epoch i has the minimum validation loss, and is the earliest that has it.
IsBestEpoch(v, i) ==
    /\ v[i].kind # "nan"
    /\ \A j \in 1..Len(v) : ~FloatLess(v[j], v[i])
    /\ \A j \in 1..(i - 1) : v[j].kind = "nan" \/ FloatLess(v[i], v[j])

StrictlyDecreasing(v) == \A i \in 1..(Len(v) - 1) : FloatLess(v[i + 1], v[i])

\* C1: when train_model returns after at least one epoch, the network's
\* parameter state is the one it had at the end of the training pass of the
\* earliest epoch with the minimum validation loss.
C1_ReturnsBestEpochState ==
    (pc = "done" /\ epochs >= 1) =>
        \E i \in 1..Len(valid_losses) :
            /\ IsBestEpoch(valid_losses, i)
            /\ heap["network"] = trained[i]

\* C2: when train_model returns, the loss list has exactly `epochs` entries
\* and its i-th entry is the loss the i-th training pass handed back.
C2_LossTrace ==
    pc = "done" =>
        /\ Len(losses) = epochs
        /\ \A i \in 1..epochs : losses[i] = train_losses[i]

C2_Witness ==
    /\ pc = "done"
    /\ epochs >= 2
    /\ Len(losses) = epochs
    /\ losses[1] # losses[2]
    /\ valid_losses[1] = NaN

\* C3 as stated: the step count handed to the schedule is
\* floor(n / b) * epochs.
C3_StepsFloorTimesEpochs ==
    pc = "loop_init" =>
        num_train_steps = (len_dr_train \div train_batch_size) * epochs

\* C3 as amended: the step count is the truncation of (n / b) * epochs: at
\* least floor(n / b) * epochs, never more than n * epochs / b, and equal to
\* floor(n / b) * epochs whenever b divides n.
C3_StepsTruncatedProduct ==
    pc = "loop_init" =>
        /\ num_train_steps >= (len_dr_train \div train_batch_size) * epochs
        /\ num_train_steps * train_batch_size <= len_dr_train * epochs
        /\ len_dr_train % train_batch_size = 0 =>
            num_train_steps = (len_dr_train \div train_batch_size) * epochs

C3_Witness ==
    /\ pc = "loop_init"
    /\ len_dr_train = 10
    /\ train_batch_size = 5
    /\ epochs = 2
    /\ num_train_steps = 4

\* The names of ParamNames that contain "bias", "LayerNorm.bias" or
\* "LayerNorm.weight", by inspection.
DenylistedNames == {layer_bias, LayerNorm_weight}

\* C4: with custom_weight_decay, every named parameter whose name contains a
\* denylist substring is in the group with weight decay 0.0 and only there,
\* and every other one is in the group with weight decay 0.001 and only there.
C4_WeightDecayGroups ==
    (custom_weight_decay /\ pc \in {"scheduler", "loop_init"}) =>
        /\ Len(optimizer_parameters) = 2
        /\ optimizer_parameters[1].weight_decay = "0.001"
        /\ optimizer_parameters[2].weight_decay = "0.0"
        /\ \A n \in named_parameters :
            IF n \in DenylistedNames
            THEN /\ n \in optimizer_parameters[2].params
                 /\ n \notin optimizer_parameters[1].params
            ELSE /\ n \in optimizer_parameters[1].params
                 /\ n \notin optimizer_parameters[2].params

C4_Witness ==
    /\ custom_weight_decay
    /\ pc = "loop_init"
    /\ named_parameters = ParamNames
    /\ layer_bias \in optimizer_parameters[2].params
    /\ layer_weight \in optimizer_parameters[1].params

\* C5: a run in which no epoch improved on the initial best loss of
\* +infinity does not raise: it gets through finalization and returns.
C5_NoImprovementReturns ==
    (best_loss = PosInf /\ best_parameters = Unbound) => pc # "raised"

\* C6: when the validation loss strictly decreased over every epoch, the
\* returned network has the parameter state of the end of the last epoch's
\* training pass.
C6_DecreasingReturnsLast ==
    (pc = "done" /\ epochs >= 1 /\ StrictlyDecreasing(valid_losses)) =>
        heap["network"] = trained[epochs]

C6_Witness ==
    /\ pc = "done"
    /\ epochs >= 2
    /\ StrictlyDecreasing(valid_losses)
    /\ heap["network"] = trained[epochs]

\* C7: once captured, the best snapshot's contents are changed by no step
\* other than the best-tracking comparison that replaces it.
C7_SnapshotIndependent ==
    [][(best_parameters # Unbound /\ pc # "compare") =>
        heap'[best_parameters'] = heap[best_parameters]]_vars

\* The calls of `k` epochs, in order.
RECURSIVE EpochCalls(_)
EpochCalls(k) ==
    IF k = 0 THEN <<>>
    ELSE EpochCalls(k - 1) \o <<"train_", "validate_", "compare">>

LoopCalls ==
    SelectSeq(trace, LAMBDA x :
        x \in {"train_", "validate_", "compare", "load_state_dict", "return"})

\* C8: the calls of the run are always a prefix of `epochs` rounds of
\* training pass, validation pass, comparison, then restoration and return;
\* finalization is reached only with all `epochs` rounds made.
C8_FixedLinearSequence ==
    /\ IsPrefix(LoopCalls, EpochCalls(epochs) \o <<"load_state_dict", "return">>)
    /\ pc \in {"finalize", "return", "done", "raised"} =>
        /\ IsPrefix(EpochCalls(epochs), LoopCalls)
        /\ Count(trace, "train_") = epochs
        /\ Count(trace, "validate_") = epochs
    /\ pc = "done" => LoopCalls = EpochCalls(epochs) \o <<"load_state_dict", "return">>

C8_Witness ==
    /\ pc = "done"
    /\ epochs >= 2
    /\ valid_losses[1] = Fin(1)
    /\ valid_losses[2] = NaN
    /\ Count(trace, "train_") = epochs

\* C9: the seeder is called at most once: once the seeding decision is
\* taken, exactly once when fixed_seed is not None and never when it is
\* None; and its call precedes every loader, optimizer and schedule.
C9_SeedOnceFirst ==
    /\ Count(trace, "enforce_reproducibility") <= 1
    /\ pc # "seed" =>
        Count(trace, "enforce_reproducibility") = IF fixed_seed = "None" THEN 0 ELSE 1
    /\ \A i \in 1..Len(trace) : trace[i] = "enforce_reproducibility" => i = 1

C9_Witness ==
    /\ pc = "done"
    /\ fixed_seed = "0"
    /\ trace[1] = "enforce_reproducibility"
    /\ Count(trace, "dl_train") = 1
    /\ Count(trace, "optimizer") = 1

\* C10 as stated: with a finite best loss, the comparison of an epoch whose
\* validation loss is NaN, +infinity or -infinity changes neither the best
\* loss nor the best snapshot, and the run goes on to the next epoch.
C10_NonFiniteIgnored ==
    [][(pc = "compare" /\ best_loss.kind = "fin" /\ valid_loss.kind # "fin") =>
        /\ best_loss' = best_loss
        /\ best_parameters' = best_parameters
        /\ heap' = heap
        /\ pc' = "loop"
        /\ epoch' = epoch + 1]_vars

\* C10 as amended: the same of an epoch whose validation loss is NaN or
\* +infinity.
C10_NanOrPosInfIgnored ==
    [][(pc = "compare" /\ best_loss.kind = "fin" /\ valid_loss.kind \in {"nan", "inf"}) =>
        /\ best_loss' = best_loss
        /\ best_parameters' = best_parameters
        /\ heap' = heap
        /\ pc' = "loop"
        /\ epoch' = epoch + 1]_vars

C10_Witness ==
    /\ pc = "loop"
    /\ epoch = 2
    /\ valid_losses[1] = Fin(1)
    /\ valid_losses[2] = NaN
    /\ best_loss = Fin(1)
    /\ best_parameters # Unbound
====
